---- MODULE Spec2Model ----
(***************************************************************************)
(* Model of extract_deliverables.py: parse_projects scans a LaTeX text     *)
(* for \keyproject, \deliverable, \keytask and \prereq commands and builds *)
(* the Project -> Deliverable -> KeyTask tree with prerequisite links.     *)
(*                                                                         *)
(* A text is a sequence of one-character strings.  Positions are Python    *)
(* positions (0-based): the character at position i is text[i + 1].        *)
(* Python strings are sequences of one-character strings too, so that      *)
(* concatenation, joining and stripping are computed, not assumed.         *)
(***************************************************************************)
EXTENDS Integers, Sequences, FiniteSets, TLC

(***************************************************************************)
(* Bounds of the checked inputs.                                           *)
(***************************************************************************)
\* largest number of fragments a generated text is made of
MaxCmds == 4
\* the same for the texts that exercise the prerequisite resolver
MaxPrCmds == 3

(***************************************************************************)
(* Characters and literals.                                                *)
(***************************************************************************)
\* pyparsing's default whitespace characters, skipped before every element
White == {" ", "\n", "\t", "\r"}

KeyprojectLit == <<"\\", "k", "e", "y", "p", "r", "o", "j", "e", "c", "t">>
DeliverableLit == <<"\\", "d", "e", "l", "i", "v", "e", "r", "a", "b", "l", "e">>
KeytaskLit == <<"\\", "k", "e", "y", "t", "a", "s", "k">>
PrereqLit == <<"\\", "p", "r", "e", "r", "e", "q">>
DeliverablerefLit == DeliverableLit \o <<"r", "e", "f">>
KeyprojectrefLit == KeyprojectLit \o <<"r", "e", "f">>
\* the prefixes 'deliverable:' and 'keyproject:' of a resolved prerequisite
DeliverablePrefix == <<"d", "e", "l", "i", "v", "e", "r", "a", "b", "l", "e", ":">>
KeyprojectPrefix == <<"k", "e", "y", "p", "r", "o", "j", "e", "c", "t", ":">>

\* the text has the literal lit at position i
LitAt(text, i, lit) ==
    /\ i + Len(lit) <= Len(text)
    /\ SubSeq(text, i + 1, i + Len(lit)) = lit

RECURSIVE SkipWhite(_, _)
\* preParse: the first position at or after i that holds no whitespace
SkipWhite(text, i) ==
    IF i < Len(text) /\ text[i + 1] \in White
    THEN SkipWhite(text, i + 1)
    ELSE i

(***************************************************************************)
(* nestedExpr(opener, closer): a group is the opener, then any number of   *)
(* quoted strings, nested groups and words (maximal runs of characters     *)
(* that are neither delimiter nor whitespace), then the closer.  The parse *)
(* of a group is a Python list whose items are strings and lists; an item  *)
(* is modelled as [isStr, s, l] with s the string or l the list.           *)
(***************************************************************************)
StrItem(s) == [isStr |-> TRUE, s |-> s, l |-> <<>>]
ListItem(l) == [isStr |-> FALSE, s |-> <<>>, l |-> l]
NoParse == [ok |-> FALSE, val |-> <<>>, loc |-> 0]

\* nestedExpr's default ignoreExpr, quotedString: a quote, then ordinary
\* characters (no quote of that kind, no newline, no backslash), doubled
\* quotes and backslash escapes (\ and a character other than x, or \x and
\* hexadecimal digits), then the closing quote of the same kind
Quotes == {"\"", "'"}
HexDigits == {"0", "1", "2", "3", "4", "5", "6", "7", "8", "9",
              "a", "b", "c", "d", "e", "f", "A", "B", "C", "D", "E", "F"}

RECURSIVE QuoteEnd(_, _, _)
\* the position past the closing quote q of a quoted string whose body
\* continues at position p; -1 when there is none
QuoteEnd(t, p, q) ==
    IF p >= Len(t) THEN -1
    ELSE IF t[p + 1] = q
    THEN IF p + 1 < Len(t) /\ t[p + 2] = q
         THEN LET r == QuoteEnd(t, p + 2, q) IN IF r # -1 THEN r ELSE p + 1
         ELSE p + 1
    ELSE IF t[p + 1] = "\\"
    THEN IF p + 1 >= Len(t) THEN -1
         ELSE IF t[p + 2] # "x" THEN QuoteEnd(t, p + 2, q)
         ELSE IF p + 2 < Len(t) /\ t[p + 3] \in HexDigits
              THEN QuoteEnd(t, p + 3, q)
              ELSE -1
    ELSE IF t[p + 1] \in {"\n", "\r"} THEN -1
    ELSE QuoteEnd(t, p + 1, q)

\* the position past the quoted string that starts at position i, or -1
QuotedEnd(t, i) ==
    IF i < Len(t) /\ t[i + 1] \in Quotes THEN QuoteEnd(t, i + 1, t[i + 1]) ELSE -1

RECURSIVE WordEnd(_, _, _, _)
\* the position just past the word that starts at i: a word ends at a
\* delimiter, at whitespace and where a quoted string starts
WordEnd(text, i, opener, closer) ==
    IF /\ i < Len(text)
       /\ text[i + 1] \notin (White \cup {opener, closer})
       /\ QuotedEnd(text, i) = -1
    THEN WordEnd(text, i + 1, opener, closer)
    ELSE i

RECURSIVE NestedItems(_, _, _, _)
\* the items of a group whose opener has been consumed, through its closer
NestedItems(text, i, opener, closer) ==
    LET j == SkipWhite(text, i) IN
    IF j >= Len(text) THEN NoParse
    ELSE IF text[j + 1] = closer THEN [ok |-> TRUE, val |-> <<>>, loc |-> j + 1]
    ELSE IF text[j + 1] = opener
    THEN LET g == NestedItems(text, j + 1, opener, closer) IN
         IF ~g.ok THEN NoParse
         ELSE LET r == NestedItems(text, g.loc, opener, closer) IN
              IF ~r.ok THEN NoParse
              ELSE [ok |-> TRUE, val |-> <<ListItem(g.val)>> \o r.val, loc |-> r.loc]
    ELSE LET e == IF QuotedEnd(text, j) # -1 THEN QuotedEnd(text, j)
                  ELSE WordEnd(text, j, opener, closer)
             r == NestedItems(text, e, opener, closer) IN
         IF ~r.ok THEN NoParse
         ELSE [ok |-> TRUE, val |-> <<StrItem(SubSeq(text, j + 1, e))>> \o r.val,
               loc |-> r.loc]

\* a whole group, leading whitespace skipped
NestedExpr(text, i, opener, closer) ==
    LET j == SkipWhite(text, i) IN
    IF j < Len(text) /\ text[j + 1] = opener
    THEN NestedItems(text, j + 1, opener, closer)
    ELSE NoParse

SB(text, i) == NestedExpr(text, i, "[", "]")
RB(text, i) == NestedExpr(text, i, "{", "}")

\* literal + SB + RB + RB at position i: content[1..3] and the end position
ElementPattern(text, i, lit) ==
    IF ~LitAt(text, i, lit) THEN NoParse
    ELSE LET a == SB(text, i + Len(lit)) IN
         IF ~a.ok THEN NoParse
         ELSE LET b == RB(text, a.loc) IN
              IF ~b.ok THEN NoParse
              ELSE LET c == RB(text, b.loc) IN
                   IF ~c.ok THEN NoParse
                   ELSE [ok |-> TRUE, val |-> <<a.val, b.val, c.val>>, loc |-> c.loc]

\* r"\prereq" + nestedExpr('{', '}') at position i
PrereqPattern(text, i) ==
    IF ~LitAt(text, i, PrereqLit) THEN NoParse
    ELSE RB(text, i + Len(PrereqLit))

RECURSIVE JoinItems(_)
\* match_to_string of a list: the items' strings joined by single spaces
JoinItems(m) ==
    IF m = <<>> THEN <<>>
    ELSE LET h == IF m[1].isStr THEN m[1].s ELSE JoinItems(m[1].l) IN
         IF Len(m) = 1 THEN h ELSE h \o <<" ">> \o JoinItems(Tail(m))

match_to_string(m) == JoinItems(m)

(***************************************************************************)
(* The parse actions.  Each returns the project list after the call and    *)
(* the exception the call raised ("none" when it returned).  Lists are     *)
(* mutated in place, so what was appended before an exception stays.       *)
(***************************************************************************)
Outcome(projects, exc) == [projects |-> projects, exc |-> exc]

\* parse with the first group ignored, as if the groups were
\* [ANY][code]{date}{name}: code and date shifted by one
parse_shifted(content) ==
    [name |-> match_to_string(content[3]),
     code |-> match_to_string(content[2]),
     date |-> match_to_string(content[3])]

\* ElementParser.parse: content[1] is the code, content[2] the date,
\* content[3] the name
parse(content) ==
    [name |-> match_to_string(content[3]),
     code |-> match_to_string(content[1]),
     date |-> match_to_string(content[2])]

\* the new project replacing the list instead of being appended to it
ProjectParser_reset(projects, content) ==
    LET i == parse(content) IN
    Outcome(<<[name |-> i.name, code |-> i.code, date |-> i.date,
               deliverables |-> <<>>]>>,
            "none")

\* ProjectParser.__call__
ProjectParser(projects, content) ==
    LET i == parse(content) IN
    Outcome(Append(projects,
                   [name |-> i.name, code |-> i.code, date |-> i.date,
                    deliverables |-> <<>>]),
            "none")

\* the deliverable attached to the first project instead of project k
AttachDeliverable_first(projects, k, d) ==
    [projects EXCEPT ![1].deliverables = Append(@, d)]

\* the deliverable replacing the deliverables of project k
AttachDeliverable_replace(projects, k, d) ==
    [projects EXCEPT ![k].deliverables = <<d>>]

\* the deliverable d appended to project number k
AttachDeliverable(projects, k, d) ==
    [projects EXCEPT ![k].deliverables = Append(@, d)]

\* DeliverableParser.__call__: self.projects[-1] raises IndexError on an
\* empty list
DeliverableParser(projects, content) ==
    LET i == parse(content) IN
    IF projects = <<>> THEN Outcome(projects, "IndexError")
    ELSE Outcome(AttachDeliverable(projects, Len(projects),
                     [name |-> i.name, code |-> i.code, date |-> i.date,
                      keytasks |-> <<>>, prereqs |-> <<>>]),
                 "none")

\* the key task inserted at the front of the keytasks
AttachKeyTask_front(projects, k, d, t) ==
    [projects EXCEPT ![k].deliverables[d].keytasks = <<t>> \o @]

\* the key task t appended to deliverable number d of project number k
AttachKeyTask(projects, k, d, t) ==
    [projects EXCEPT ![k].deliverables[d].keytasks = Append(@, t)]

\* KeyTaskParser.__call__
KeyTaskParser(projects, content) ==
    LET i == parse(content) IN
    IF projects = <<>> THEN Outcome(projects, "IndexError")
    ELSE IF projects[Len(projects)].deliverables = <<>>
    THEN Outcome(projects, "IndexError")
    ELSE Outcome(AttachKeyTask(projects, Len(projects),
                     Len(projects[Len(projects)].deliverables),
                     [name |-> i.name, code |-> i.code, date |-> i.date]),
                 "none")

RECURSIVE LStrip(_, _)
LStrip(s, chars) ==
    IF s # <<>> /\ Head(s) \in chars THEN LStrip(Tail(s), chars) ELSE s
RECURSIVE RStrip(_, _)
RStrip(s, chars) ==
    IF s # <<>> /\ s[Len(s)] \in chars
    THEN RStrip(SubSeq(s, 1, Len(s) - 1), chars)
    ELSE s
\* str.strip(chars)
Strip(s, chars) == RStrip(LStrip(s, chars), chars)

\* content[i].strip(',').strip()
RefToken(item) == Strip(Strip(item.s, {","}), White)

\* what iterating over content[i+1] yields: the items of a list, the
\* characters of a string
Iterate(item) ==
    IF item.isStr THEN [k \in 1..Len(item.s) |-> StrItem(<<item.s[k]>>)]
    ELSE item.l

RECURSIVE AppendReqs(_, _, _)
\* the for loop over content[i+1]: 'prefix' + req appended for every req
\* other than ','; prefix + a list raises TypeError
AppendReqs(prereqs, prefix, reqs) ==
    IF reqs = <<>> THEN [prereqs |-> prereqs, exc |-> "none"]
    ELSE IF ~reqs[1].isStr THEN [prereqs |-> prereqs, exc |-> "TypeError"]
    ELSE IF reqs[1].s = <<",">> THEN AppendReqs(prereqs, prefix, Tail(reqs))
    ELSE AppendReqs(Append(prereqs, prefix \o reqs[1].s), prefix, Tail(reqs))

RECURSIVE PrereqLoop_break(_, _, _)
\* variant: the loop is left at the first token that is no reference type
PrereqLoop_break(content, i, prereqs) ==
    LET tok == IF content[i + 1].isStr THEN RefToken(content[i + 1]) ELSE <<>>
        isRef == content[i + 1].isStr
                 /\ tok \in {DeliverablerefLit, KeyprojectrefLit}
        prefix == IF tok = DeliverablerefLit THEN DeliverablePrefix
                  ELSE KeyprojectPrefix
    IN
    IF ~isRef THEN [prereqs |-> prereqs, exc |-> "none"]
    ELSE IF i + 1 >= Len(content)
    THEN [prereqs |-> prereqs, exc |-> "IndexError"]
    ELSE LET r == AppendReqs(prereqs, prefix, Iterate(content[i + 2]))
         IN
         IF r.exc # "none" THEN r
         ELSE IF i + 2 >= Len(content) THEN r
         ELSE PrereqLoop_break(content, i + 2, r.prereqs)

\* the index after the iteration at 0-based index i: i += 2 after a
\* reference token and its group, i += 1 after any other item
NextIndex(content, i) ==
    IF /\ content[i + 1].isStr
       /\ RefToken(content[i + 1]) \in {DeliverablerefLit, KeyprojectrefLit}
    THEN i + 2 ELSE i + 1

RECURSIVE PrereqLoop(_, _, _)
\* the while loop of PreReqParser.__call__, entered with 0-based index i
PrereqLoop(content, i, prereqs) ==
    LET tok == IF content[i + 1].isStr THEN RefToken(content[i + 1]) ELSE <<>>
        isRef == content[i + 1].isStr
                 /\ tok \in {DeliverablerefLit, KeyprojectrefLit}
        prefix == IF tok = DeliverablerefLit THEN DeliverablePrefix
                  ELSE KeyprojectPrefix
    IN
    IF isRef /\ i + 1 >= Len(content)
    THEN [prereqs |-> prereqs, exc |-> "IndexError"]
    ELSE LET r == IF isRef
                  THEN AppendReqs(prereqs, prefix, Iterate(content[i + 2]))
                  ELSE [prereqs |-> prereqs, exc |-> "none"]
             n == NextIndex(content, i)
         IN
         IF r.exc # "none" THEN r
         ELSE IF n >= Len(content) THEN r
         ELSE PrereqLoop(content, n, r.prereqs)

\* the prereqs of the first deliverable of the last project replaced by p
SetPrereqs_first(projects, p) ==
    [projects EXCEPT ![Len(projects)].deliverables[1].prereqs = p]

\* the prereqs of the last deliverable of the last project replaced by p
SetPrereqs(projects, p) ==
    [projects EXCEPT ![Len(projects)].deliverables[
        Len(projects[Len(projects)].deliverables)].prereqs = p]

\* PreReqParser.__call__; content is content.asList()[1]
PreReqParser(projects, content) ==
    IF content = <<>> THEN Outcome(projects, "none")
    ELSE IF projects = <<>> THEN Outcome(projects, "IndexError")
    ELSE IF projects[Len(projects)].deliverables = <<>>
    THEN Outcome(projects, "IndexError")
    ELSE LET cur == projects[Len(projects)].deliverables[
                        Len(projects[Len(projects)].deliverables)]
             r == PrereqLoop(content, 0, cur.prereqs)
         IN Outcome(SetPrereqs(projects, r.prereqs), r.exc)

(***************************************************************************)
(* Input texts: concatenations of at most MaxCmds fragments.               *)
(***************************************************************************)
\* \keyproject[P]{d}{n}
FragKP == KeyprojectLit \o <<"[", "P", "]", "{", "d", "}", "{", "n", "}">>
\* \deliverable[D]{d}{n}
FragDV == DeliverableLit \o <<"[", "D", "]", "{", "d", "}", "{", "n", "}">>
\* \keytask[x]{c}{n}
FragKT == KeytaskLit \o <<"[", "x", "]", "{", "c", "}", "{", "n", "}">>
\* \keytask [y]{c}{n {m}}
FragKU == KeytaskLit \o <<" ", "[", "y", "]", "{", "c", "}",
                          "{", "n", " ", "{", "m", "}", "}">>
\* \keytask[x]{bad{   (unterminated)
FragBad == KeytaskLit \o <<"[", "x", "]", "{", "b", "a", "d", "{">>
\* \prereq{\deliverableref{A,B} \keyprojectref{C}}
FragPrAB == PrereqLit \o <<"{">> \o DeliverablerefLit \o <<"{", "A", ",", "B", "}", " ">>
            \o KeyprojectrefLit \o <<"{", "C", "}", "}">>
\* \prereq{\keyprojectref{A , B},\deliverableref{C}}
FragPrSp == PrereqLit \o <<"{">> \o KeyprojectrefLit
            \o <<"{", "A", " ", ",", " ", "B", "}", ",">>
            \o DeliverablerefLit \o <<"{", "C", "}", "}">>
\* \prereq{}
FragPrEmpty == PrereqLit \o <<"{", "}">>
\* \keyproject[Q]{e}{m}
FragKQ == KeyprojectLit \o <<"[", "Q", "]", "{", "e", "}", "{", "m", "}">>
\* \prereq{\deliverableref{A} \keyprojectref}   (no group after the last token)
FragPrTail == PrereqLit \o <<"{">> \o DeliverablerefLit \o <<"{", "A", "}", " ">>
              \o KeyprojectrefLit \o <<"}">>
\* \prereq{\deliverableref{{A}}}   (a group inside the identifier list)
FragPrNest == PrereqLit \o <<"{">> \o DeliverablerefLit
              \o <<"{", "{", "A", "}", "}", "}">>
\* \prereq{\keyprojectref A,B}   (a word where the identifier list belongs)
FragPrWord == PrereqLit \o <<"{">> \o KeyprojectrefLit \o <<" ", "A", ",", "B", "}">>
\* \prereq{\deliverableref{A} \fooref{X} \deliverableref{B}}
FragPrFoo == PrereqLit \o <<"{">> \o DeliverablerefLit \o <<"{", "A", "}", " ">>
             \o <<"\\", "f", "o", "o", "r", "e", "f", "{", "X", "}", " ">>
             \o DeliverablerefLit \o <<"{", "B", "}", "}">>

\* \keytask[x]{c}{"{"}
FragQOpen == KeytaskLit \o <<"[", "x", "]", "{", "c", "}", "{", "\"", "{", "\"", "}">>
\* \keytask[y]{c}{"}"}
FragQClose == KeytaskLit \o <<"[", "y", "]", "{", "c", "}", "{", "\"", "}", "\"", "}">>
\* \deliverable[D]{d}{\keyproject[P]{d}{n}}
FragDvNest == DeliverableLit \o <<"[", "D", "]", "{", "d", "}", "{">>
              \o FragKP \o <<"}">>
\* \prereq{\fooref{X}}
FragPrOnlyFoo == PrereqLit \o <<"{", "\\", "f", "o", "o", "r", "e", "f",
                                "{", "X", "}", "}">>

RECURSIVE Concat(_)
Concat(ss) == IF ss = <<>> THEN <<>> ELSE Head(ss) \o Concat(Tail(ss))

\* the texts made of at most n fragments of F
Texts(F, n) == {Concat(fs) : fs \in UNION {[1..k -> F] : k \in 0..n}}

Fragments ==
    {FragKP, FragKQ, FragDV, FragKT, FragKU, FragBad, FragPrAB, FragPrEmpty}

PrereqFragments ==
    {FragKP, FragDV, FragKT, FragPrAB, FragPrSp, FragPrEmpty, FragPrTail,
     FragPrNest, FragPrWord, FragPrFoo}

(***************************************************************************)
(* State.                                                                  *)
(***************************************************************************)
VARIABLES
    docs,        \* the texts read_latex returns, in the caller's order
    di,          \* number of parse_projects calls started
    pc,          \* "idle": no call running; "scan": in scanString;
                 \* "raised": an exception left parse_projects
    loc,         \* scanString's position in the text
    projects,    \* the list the parse actions share
    results,     \* what the calls of parse_projects returned, in order
    dispatched,  \* history: the parse actions run in this call, in order
    names,       \* the filenames given to generate_confluence_table
    group_name,  \* generate_confluence_table's group_name (<<>>: unset)
    printed,     \* the lines printed so far
    orphaned     \* history: the calls in which a command had no open parent

vars == <<docs, di, pc, loc, projects, results, dispatched,
          names, group_name, printed, orphaned>>

text == docs[di]

\* the file name given to the documents of the single-file runs
FileA == <<"a", ".", "t", "e", "x">>

\* str.upper() on the letters
Lowers == <<"a", "b", "c", "d", "e", "f", "g", "h", "i", "j", "k", "l", "m",
            "n", "o", "p", "q", "r", "s", "t", "u", "v", "w", "x", "y", "z">>
Uppers == <<"A", "B", "C", "D", "E", "F", "G", "H", "I", "J", "K", "L", "M",
            "N", "O", "P", "Q", "R", "S", "T", "U", "V", "W", "X", "Y", "Z">>
UpperChar(c) ==
    IF \E k \in 1..Len(Lowers) : Lowers[k] = c
    THEN Uppers[CHOOSE k \in 1..Len(Lowers) : Lowers[k] = c]
    ELSE c
Upper(str) == [k \in 1..Len(str) |-> UpperChar(str[k])]

\* filename[:-4].upper()
GroupName(filename) == Upper(SubSeq(filename, 1, Len(filename) - 4))

\* a batch: the file names and the text read_latex returns for each
InitBatch(B) ==
    /\ \E b \in B : names = b.names /\ docs = b.docs
    /\ di = 0
    /\ pc = "idle"
    /\ loc = 0
    /\ projects = <<>>
    /\ results = <<>>
    /\ dispatched = <<>>
    /\ group_name = <<>>
    /\ printed = <<>>
    /\ orphaned = {}

\* the batches whose texts are D, every file named a.tex
NamedA(D) == {[names |-> [k \in 1..Len(d) |-> FileA], docs |-> d] : d \in D}

InitOf(D) == InitBatch(NamedA(D))

Init == InitOf({<<t>> : t \in Texts(Fragments, MaxCmds)})

\* parse_projects entered with the list of the previous call
Call_shared ==
    /\ pc = "idle"
    /\ di < Len(docs)
    /\ di' = di + 1
    /\ pc' = "scan"
    /\ loc' = 0
    /\ dispatched' = <<>>
    /\ group_name' = GroupName(names[di + 1])
    /\ UNCHANGED <<docs, results, projects, names, printed, orphaned>>

\* the loop body of generate_confluence_table up to the entry of
\* parse_projects: group_name is set, the text is read, projects = []
Call ==
    /\ pc = "idle"
    /\ di < Len(docs)
    /\ di' = di + 1
    /\ pc' = "scan"
    /\ loc' = 0
    /\ projects' = <<>>
    /\ dispatched' = <<>>
    /\ group_name' = GroupName(names[di + 1])
    /\ UNCHANGED <<docs, results, names, printed, orphaned>>

\* where scanString tries the patterns: loc with whitespace skipped
preloc == SkipWhite(text, loc)

\* the prereqs of all deliverables of all projects, in order
RECURSIVE AllPrereqs(_)
AllPrereqs(ps) ==
    IF ps = <<>> THEN <<>>
    ELSE AllPrereqs(SubSeq(ps, 1, Len(ps) - 1))
         \o Concat([d \in 1..Len(ps[Len(ps)].deliverables) |->
                       ps[Len(ps)].deliverables[d].prereqs])

\* the entry of the history for a parse action run at position at: the
\* command, its captured groups, the exception raised and the prereqs
\* the call appended
Entry(kind, at, content, before, out) ==
    [kind |-> kind, at |-> at, content |-> content, exc |-> out.exc,
     added |-> SubSeq(AllPrereqs(out.projects), Len(AllPrereqs(before)) + 1,
                      Len(AllPrereqs(out.projects)))]

\* the command has the parent it is attached to: a project for a
\* deliverable, a deliverable of the last project for a keytask or prereq
OpenParent(kind, ps) ==
    /\ ps # <<>>
    /\ kind \in {"keytask", "prereq"} => ps[Len(ps)].deliverables # <<>>

\* after a parse action that raised, the scan resumes at preloc itself
Dispatch_retry(kind, m, out) ==
    /\ projects' = out.projects
    /\ dispatched' = Append(dispatched, Entry(kind, preloc, m.val, projects, out))
    /\ loc' = IF out.exc = "none" THEN m.loc ELSE preloc
    /\ pc' = IF out.exc \in {"none", "IndexError"} THEN "scan" ELSE "raised"
    /\ orphaned' = IF out.exc = "IndexError" /\ ~OpenParent(kind, projects)
                   THEN orphaned \cup {di} ELSE orphaned
    /\ UNCHANGED <<docs, di, results, names, group_name, printed>>

\* after a parse action: an IndexError raised inside the parse attempt
\* is turned into a failed match by pyparsing (the scan resumes one
\* character further), any other exception leaves parse_projects
Dispatch(kind, m, out) ==
    /\ projects' = out.projects
    /\ dispatched' = Append(dispatched, Entry(kind, preloc, m.val, projects, out))
    /\ loc' = IF out.exc = "none" THEN m.loc ELSE preloc + 1
    /\ pc' = IF out.exc \in {"none", "IndexError"} THEN "scan" ELSE "raised"
    /\ orphaned' = IF out.exc = "IndexError" /\ ~OpenParent(kind, projects)
                   THEN orphaned \cup {di} ELSE orphaned
    /\ UNCHANGED <<docs, di, results, names, group_name, printed>>

Scanning == pc = "scan" /\ loc <= Len(text)

\* project_pattern matches at preloc
ProjectStep ==
    /\ Scanning
    /\ LET m == ElementPattern(text, preloc, KeyprojectLit) IN
       /\ m.ok
       /\ Dispatch("keyproject", m, ProjectParser(projects, m.val))

\* deliverable_pattern matches at preloc
DeliverableStep ==
    /\ Scanning
    /\ LET m == ElementPattern(text, preloc, DeliverableLit) IN
       /\ m.ok
       /\ Dispatch("deliverable", m, DeliverableParser(projects, m.val))

\* keytask_pattern matches at preloc
KeyTaskStep ==
    /\ Scanning
    /\ LET m == ElementPattern(text, preloc, KeytaskLit) IN
       /\ m.ok
       /\ Dispatch("keytask", m, KeyTaskParser(projects, m.val))

\* prereq_pattern matches at preloc
PrereqStep ==
    /\ Scanning
    /\ LET m == PrereqPattern(text, preloc) IN
       /\ m.ok
       /\ Dispatch("prereq", m, PreReqParser(projects, m.val))

\* a failed match ends the scan
NoMatch_abort ==
    /\ pc = "scan" /\ loc <= Len(docs[di])
    /\ ~ElementPattern(docs[di], SkipWhite(docs[di], loc), KeyprojectLit).ok
    /\ ~ElementPattern(docs[di], SkipWhite(docs[di], loc), DeliverableLit).ok
    /\ ~ElementPattern(docs[di], SkipWhite(docs[di], loc), KeytaskLit).ok
    /\ ~PrereqPattern(docs[di], SkipWhite(docs[di], loc)).ok
    /\ loc' = Len(docs[di]) + 1
    /\ UNCHANGED <<docs, di, pc, projects, results, dispatched,
                   names, group_name, printed, orphaned>>

\* no pattern matches at preloc: the scan resumes one character further
NoMatch ==
    /\ Scanning
    /\ ~ElementPattern(text, preloc, KeyprojectLit).ok
    /\ ~ElementPattern(text, preloc, DeliverableLit).ok
    /\ ~ElementPattern(text, preloc, KeytaskLit).ok
    /\ ~PrereqPattern(text, preloc).ok
    /\ loc' = preloc + 1
    /\ UNCHANGED <<docs, di, pc, projects, results, dispatched,
                   names, group_name, printed, orphaned>>

\* the scan is over: return projects
Return ==
    /\ pc = "scan"
    /\ loc > Len(text)
    /\ results' = Append(results, projects)
    /\ pc' = "idle"
    /\ UNCHANGED <<docs, di, loc, projects, dispatched,
                   names, group_name, printed, orphaned>>

(***************************************************************************)
(* generate_confluence_table after its loop: the header, one row per key   *)
(* task, the trailer.                                                      *)
(***************************************************************************)
\* "||" + "||".join(header) + "||"
HeaderLine ==
    <<"|", "|", "K", "e", "y", " ", "T", "a", "s", "k", "|", "|", "D", "u",
      "e", " ", "d", "a", "t", "e", "|", "|", "D", "e", "s", "c", "r", "i",
      "p", "t", "i", "o", "n", "|", "|", "P", "e", "o", "p", "l", "e", " ",
      "w", "o", "r", "k", "i", "n", "g", " ", "o", "n", " ", "t", "h", "i",
      "s", "|", "|", "E", "x", "i", "s", "t", "i", "n", "g", " ", "/", " ",
      "c", "o", "m", "p", "l", "e", "t", "e", "d", " ", "w", "o", "r", "k",
      "|", "|", "S", "t", "a", "t", "u", "s", "|", "|">>

\* the status cell
StatusCell ==
    <<"{", "s", "t", "a", "t", "u", "s", ":", "c", "o", "l", "o", "u", "r",
      "=", "G", "r", "a", "y", "|", "t", "i", "t", "l", "e", "=", "W", "a",
      "i", "t", "i", "n", "g", "}">>

\* "{csv}"
TrailerLine == <<"{", "c", "s", "v", "}">>

Digits == <<"0", "1", "2", "3", "4", "5", "6", "7", "8", "9">>
RECURSIVE ToDec(_)
\* the decimal digits "{0}".format(n) writes
ToDec(n) ==
    IF n < 10 THEN <<Digits[n + 1]>>
    ELSE ToDec(n \div 10) \o <<Digits[(n % 10) + 1]>>

\* "{0}{1}.{2}.{3}".format(group_name, project_index, deliverable_index,
\* task_index)
TaskCode(group, p, d, t) ==
    group \o ToDec(p) \o <<".">> \o ToDec(d) \o <<".">> \o ToDec(t)

\* "|" + "|".join(row) + "|"
RowLine(row) ==
    <<"|">> \o Concat([k \in 1..Len(row) |-> row[k] \o <<"|">>])

\* the row of key task t of deliverable d of project p, all 1-indexed
TaskRow(group, ps, p, d, t) ==
    <<TaskCode(group, p, d, t),
      ps[p].deliverables[d].keytasks[t].date,
      ps[p].deliverables[d].keytasks[t].name,
      <<" ">>, <<" ">>, StatusCell>>

\* the rows the three nested loops print for the project list ps
TableRows(group, ps) ==
    Concat([p \in 1..Len(ps) |->
        Concat([d \in 1..Len(ps[p].deliverables) |->
            [t \in 1..Len(ps[p].deliverables[d].keytasks) |->
                RowLine(TaskRow(group, ps, p, d, t))]])])

\* the loop of generate_confluence_table is over: the table is printed
\* for projects, the concatenation of what the calls returned
Emit ==
    /\ pc = "idle"
    /\ di = Len(docs)
    /\ pc' = "done"
    /\ printed' = <<HeaderLine>> \o TableRows(group_name, Concat(results))
                      \o <<TrailerLine>>
    /\ UNCHANGED <<docs, di, loc, projects, results, dispatched,
                   names, group_name, orphaned>>

Next ==
    \/ Call
    \/ ProjectStep
    \/ DeliverableStep
    \/ KeyTaskStep
    \/ PrereqStep
    \/ NoMatch
    \/ Return
    \/ Emit

Spec == Init /\ [][Next]_vars

\* the texts that exercise the prerequisite resolver
InitPrereq == InitOf({<<t>> : t \in Texts(PrereqFragments, MaxPrCmds)})
SpecPrereq == InitPrereq /\ [][Next]_vars

\* parse_projects called twice on the same text
InitTwice == InitOf({<<t, t>> : t \in Texts(Fragments, MaxCmds)})
SpecTwice == InitTwice /\ [][Next]_vars

\* texts of projects, deliverables, key tasks and prerequisite lists, one
\* of them ending in a reference token with no group
TreeFragments == {FragKP, FragKQ, FragDV, FragKT, FragPrAB, FragPrTail}
InitTree == InitOf({<<t>> : t \in Texts(TreeFragments, MaxCmds)})
SpecTree == InitTree /\ [][Next]_vars

\* texts with quoted strings that hold a delimiter, with a command inside
\* a group of another command, and with a prerequisite list of unknown
\* tokens only
MaxScanCmds == 3
ScanFragments ==
    {FragKP, FragDV, FragKT, FragQOpen, FragQClose, FragDvNest, FragPrOnlyFoo}
InitScan == InitOf({<<t>> : t \in Texts(ScanFragments, MaxScanCmds)})
SpecScan == InitScan /\ [][Next]_vars

\* one step of the scanString loop
ScanStep ==
    ProjectStep \/ DeliverableStep \/ KeyTaskStep \/ PrereqStep \/ NoMatch

\* weak fairness of ScanStep with its enabling condition written out: a
\* scan step can be taken exactly while Scanning holds (one of the four
\* patterns matches at preloc or none does), so the loop is not left
\* standing for ever in the middle of a text
FairScanStep == []<>(~Scanning) \/ []<><<ScanStep>>_vars

\* the program is sequential and runs on until it ends: the call, the scan
\* steps, the return and the printing each happen once they can
FairScan ==
    /\ SpecScan
    /\ WF_vars(Call) /\ WF_vars(Return) /\ WF_vars(Emit)
    /\ FairScanStep

(***************************************************************************)
(* Batches: generate_confluence_table called with up to MaxDocs of the     *)
(* files below.                                                            *)
(***************************************************************************)
MaxDocs == 2

FileB == <<"b", ".", "t", "e", "x">>
FileC == <<"c", ".", "t", "e", "x">>
FileD == <<"d", ".", "t", "e", "x">>
FileE == <<"e", ".", "t", "e", "x">>
FileF == <<"f", ".", "t", "e", "x">>
FileNames == {FileA, FileB, FileC, FileD, FileE, FileF}

\* what read_latex returns for each file:
\*   a.tex  one project, one deliverable, one key task
\*   b.tex  two projects, three deliverables, five key tasks
\*   c.tex  a project and then a key task with no deliverable open
\*   d.tex  a deliverable and a key task with no project open
\*   e.tex  a \deliverableref with a nested group (TypeError)
\*   f.tex  one project, one deliverable with prerequisites, one key task
ReadLatex(filename) ==
    CASE filename = FileA -> FragKP \o FragDV \o FragKT
      [] filename = FileB -> FragKP \o FragDV \o FragKT \o FragKU \o FragDV
                             \o FragKT \o FragKQ \o FragDV \o FragKU \o FragKT
      [] filename = FileC -> FragKP \o FragKT
      [] filename = FileD -> FragDV \o FragKT
      [] filename = FileE -> FragKP \o FragDV \o FragPrNest \o FragKT
      [] filename = FileF -> FragKQ \o FragDV \o FragPrAB \o FragKU

Batches ==
    {[names |-> ns, docs |-> [k \in 1..Len(ns) |-> ReadLatex(ns[k])]] :
        ns \in UNION {[1..n -> FileNames] : n \in 1..MaxDocs}}

InitBatches == InitBatch(Batches)
SpecBatch == InitBatches /\ [][Next]_vars

(***************************************************************************)
(* The end-to-end scenario of the documentation, with the commands in the *)
(* four-group form [ANY][code]{date}{name} and in the three-group form    *)
(* [code]{date}{name}; the commands are separated by newlines.            *)
(***************************************************************************)
ScenarioFourGroup ==
    <<"\\", "k", "e", "y", "p", "r", "o", "j", "e", "c", "t", "[", "]",
      "[", "P", "1", "]", "{", "2", "0", "2", "0", "}", "{", "P", "r", "o",
      "j", " ", "O", "n", "e", "}", "\n", "\\", "d", "e", "l", "i", "v",
      "e", "r", "a", "b", "l", "e", "[", "]", "[", "D", "1", "]", "{", "2",
      "0", "2", "1", "}", "{", "D", "e", "l", "i", "v", " ", "O", "n", "e",
      "}", "\n", "\\", "k", "e", "y", "t", "a", "s", "k", "[", "]", "[",
      "T", "1", "]", "{", "2", "0", "2", "1", "}", "{", "T", "a", "s", "k",
      " ", "O", "n", "e", "}", "\n", "\\", "p", "r", "e", "r", "e", "q",
      "{", "\\", "d", "e", "l", "i", "v", "e", "r", "a", "b", "l", "e",
      "r", "e", "f", "{", "D", "0", "}", "}">>

ScenarioThreeGroup ==
    <<"\\", "k", "e", "y", "p", "r", "o", "j", "e", "c", "t", "[", "P",
      "1", "]", "{", "2", "0", "2", "0", "}", "{", "P", "r", "o", "j", " ",
      "O", "n", "e", "}", "\n", "\\", "d", "e", "l", "i", "v", "e", "r",
      "a", "b", "l", "e", "[", "D", "1", "]", "{", "2", "0", "2", "1", "}",
      "{", "D", "e", "l", "i", "v", " ", "O", "n", "e", "}", "\n", "\\",
      "k", "e", "y", "t", "a", "s", "k", "[", "T", "1", "]", "{", "2", "0",
      "2", "1", "}", "{", "T", "a", "s", "k", " ", "O", "n", "e", "}",
      "\n", "\\", "p", "r", "e", "r", "e", "q", "{", "\\", "d", "e", "l",
      "i", "v", "e", "r", "a", "b", "l", "e", "r", "e", "f", "{", "D", "0",
      "}", "}">>

InitScenario == InitOf({<<ScenarioFourGroup>>, <<ScenarioThreeGroup>>})
SpecScenario == InitScenario /\ [][Next]_vars

\* one Project P1 'Proj One' with one Deliverable D1 'Deliv One' with
\* prereqs [deliverable:D0] and one KeyTask T1 'Task One'
ScenarioYield(tree) ==
    /\ Len(tree) = 1
    /\ tree[1].code = <<"P", "1">>
    /\ tree[1].name = <<"P", "r", "o", "j", " ", "O", "n", "e">>
    /\ Len(tree[1].deliverables) = 1
    /\ LET d == tree[1].deliverables[1] IN
       /\ d.code = <<"D", "1">>
       /\ d.name = <<"D", "e", "l", "i", "v", " ", "O", "n", "e">>
       /\ d.prereqs = <<DeliverablePrefix \o <<"D", "0">>>>
       /\ Len(d.keytasks) = 1
       /\ d.keytasks[1].code = <<"T", "1">>
       /\ d.keytasks[1].name = <<"T", "a", "s", "k", " ", "O", "n", "e">>

\* the first call has returned
Returned == Len(results) >= 1

Kind(k) == dispatched[k].kind
Nums == [k \in 1..Len(dispatched) |-> k]

\* a keyproject command was recognized before command k
ProjectBefore(k) == \E j \in 1..(k - 1) : Kind(j) = "keyproject"

\* a deliverable command was recognized before command k and after the
\* last keyproject command before k
DeliverableOpenAt(k) ==
    \E p \in 1..(k - 1) :
        /\ Kind(p) = "keyproject"
        /\ \A q \in (p + 1)..(k - 1) : Kind(q) # "keyproject"
        /\ \E d \in (p + 1)..(k - 1) : Kind(d) = "deliverable"

\* C2 as stated: a deliverable command recognized before any keyproject
\* command makes the parse fail with an error (it is not silently dropped).
C2_OrphanDeliverableFails ==
    \A k \in 1..Len(dispatched) :
        (Kind(k) = "deliverable" /\ ~ProjectBefore(k)) => pc = "raised"

\* C3 as stated: a keytask command recognized while no deliverable is open
\* makes the parse fail with an error, and is never attached to a
\* deliverable of an earlier project.
C3_OrphanKeyTaskFails ==
    \A k \in 1..Len(dispatched) :
        (Kind(k) = "keytask" /\ ~DeliverableOpenAt(k)) =>
            /\ pc = "raised"
            /\ dispatched[k].exc # "none"

\* C4 as stated: a prereq command recognized while no deliverable is open
\* makes the parse fail with an error, whatever its content, an empty
\* reference list included; it never completes silently.
C4_OrphanPrereqFails ==
    \A k \in 1..Len(dispatched) :
        (Kind(k) = "prereq" /\ ~DeliverableOpenAt(k)) =>
            /\ dispatched[k].exc # "none"
            /\ pc = "raised"

\* C5 as stated: every identifier of a comma-separated list becomes one
\* PrereqRef with commas stripped, so no resolved prerequisite holds a
\* comma, and \prereq{\deliverableref{A,B} \keyprojectref{C}} under an open
\* deliverable yields deliverable:A, deliverable:B, keyproject:C.
C5_PrereqResolution ==
    /\ \A k \in 1..Len(AllPrereqs(projects)) :
           \A c \in 1..Len(AllPrereqs(projects)[k]) :
               AllPrereqs(projects)[k][c] # ","
    /\ (Returned /\ docs[1] = FragKP \o FragDV \o FragPrAB) =>
           AllPrereqs(results[1]) = <<DeliverablePrefix \o <<"A">>,
                                      DeliverablePrefix \o <<"B">>,
                                      KeyprojectPrefix \o <<"C">>>>

\* a deliverable command has just been handled without an exception
DeliverableHandled ==
    /\ pc = "scan"
    /\ Len(dispatched') = Len(dispatched) + 1
    /\ dispatched'[Len(dispatched')].kind = "deliverable"
    /\ dispatched'[Len(dispatched')].exc = "none"

\* C6: a newly recognized deliverable becomes the last deliverable of the
\* most recently created project; every other project, and that project's
\* earlier deliverables and own fields, are unchanged.
C6_AttachToLastProject ==
    [][DeliverableHandled =>
         /\ Len(projects') = Len(projects)
         /\ projects # <<>>
         /\ \A k \in 1..(Len(projects) - 1) : projects'[k] = projects[k]
         /\ LET old == projects[Len(projects)]
                new == projects'[Len(projects)]
            IN /\ new.code = old.code /\ new.name = old.name /\ new.date = old.date
               /\ Len(new.deliverables) = Len(old.deliverables) + 1
               /\ SubSeq(new.deliverables, 1, Len(old.deliverables)) = old.deliverables
               /\ new.deliverables[Len(new.deliverables)].code
                      = match_to_string(dispatched'[Len(dispatched')].content[1])
               /\ new.deliverables[Len(new.deliverables)].keytasks = <<>>
      ]_vars

\* two keyprojects, then a deliverable: it belongs to the second project
C6_Witness ==
    /\ Len(projects) = 2
    /\ Len(dispatched) = 3
    /\ Kind(3) = "deliverable"
    /\ projects[1].deliverables = <<>>
    /\ Len(projects[2].deliverables) = 1

\* every deliverable follows a keyproject, every keytask and prereq follows
\* a deliverable of the current project
WellFormed ==
    \A k \in 1..Len(dispatched) :
        /\ Kind(k) = "deliverable" => ProjectBefore(k)
        /\ Kind(k) \in {"keytask", "prereq"} => DeliverableOpenAt(k)

\* the positions in the history of the keyproject commands
ProjIdx == SelectSeq(Nums, LAMBDA k : Kind(k) = "keyproject")
\* the last command of the n-th project's stretch of the text
SegEnd(n) == IF n < Len(ProjIdx) THEN ProjIdx[n + 1] - 1 ELSE Len(dispatched)
\* the deliverable commands of the n-th project's stretch
DelivIdx(n) ==
    SelectSeq(Nums, LAMBDA k : /\ ProjIdx[n] < k /\ k <= SegEnd(n)
                               /\ Kind(k) = "deliverable")

\* C7: when the scan of a well-formed command sequence completes, each
\* project holds as many deliverables as deliverable commands were
\* recognized after its keyproject command and before the next one.
C7_DeliverableCount ==
    (Returned /\ di = 1 /\ WellFormed) =>
        /\ Len(results[1]) = Len(ProjIdx)
        /\ \A n \in 1..Len(ProjIdx) :
               Len(results[1][n].deliverables) = Len(DelivIdx(n))

C7_Witness ==
    /\ Returned /\ di = 1 /\ WellFormed
    /\ Len(results[1]) = 2
    /\ Len(results[1][1].deliverables) = 2
    /\ results[1][2].deliverables = <<>>

\* the last command of the stretch of the j-th deliverable of project n
SubEnd(n, j) ==
    IF j < Len(DelivIdx(n)) THEN DelivIdx(n)[j + 1] - 1 ELSE SegEnd(n)
\* the commands of the given kind in that stretch
ChildIdx(n, j, kind) ==
    SelectSeq(Nums, LAMBDA k : /\ DelivIdx(n)[j] < k /\ k <= SubEnd(n, j)
                               /\ Kind(k) = kind)
\* code, date and name captured by command k
Info(k) == parse(dispatched[k].content)
SameInfo(e, i) == e.code = i.code /\ e.date = i.date /\ e.name = i.name

\* C8: at every point of the scan the projects, the deliverables of each
\* project and the keytasks and prereqs of each deliverable are listed in
\* the order in which their commands were recognized.
C8_SourceOrder ==
    /\ Len(projects) = Len(ProjIdx)
    /\ \A n \in 1..Len(ProjIdx) :
        /\ SameInfo(projects[n], Info(ProjIdx[n]))
        /\ Len(projects[n].deliverables) = Len(DelivIdx(n))
        /\ \A j \in 1..Len(DelivIdx(n)) :
            LET d == projects[n].deliverables[j]
                ts == ChildIdx(n, j, "keytask")
                rs == ChildIdx(n, j, "prereq")
            IN /\ SameInfo(d, Info(DelivIdx(n)[j]))
               /\ d.keytasks = [i \in 1..Len(ts) |-> Info(ts[i])]
               /\ d.prereqs = Concat([i \in 1..Len(rs) |-> dispatched[rs[i]].added])

\* two different keytasks under one deliverable, \keytask [y].. first
C8_Witness ==
    /\ Len(projects) = 1
    /\ Len(projects[1].deliverables) = 1
    /\ Len(projects[1].deliverables[1].keytasks) = 2
    /\ projects[1].deliverables[1].keytasks[1].code = <<"y">>
    /\ projects[1].deliverables[1].keytasks[2].code = <<"x">>

(***************************************************************************)
(* Delimiter counting, as a reference for the bracket groups: +1 on the    *)
(* opener, -1 on the closer, stop at 0.                                    *)
(***************************************************************************)
RECURSIVE CloseAt(_, _, _, _, _)
\* the position of the closer that brings the count from depth to 0, the
\* scan starting at position i; -1 when the input ends first
CloseAt(t, i, depth, opener, closer) ==
    IF i >= Len(t) THEN -1
    ELSE IF t[i + 1] = opener THEN CloseAt(t, i + 1, depth + 1, opener, closer)
    ELSE IF t[i + 1] = closer
    THEN IF depth = 1 THEN i ELSE CloseAt(t, i + 1, depth - 1, opener, closer)
    ELSE CloseAt(t, i + 1, depth, opener, closer)

\* a group opens at (whitespace skipped) position i and never closes
OpenEnded(t, i, opener, closer) ==
    LET j == SkipWhite(t, i) IN
    /\ j < Len(t)
    /\ t[j + 1] = opener
    /\ CloseAt(t, j + 1, 1, opener, closer) = -1

\* the position past the group that opens at position i
PastGroup(t, i, opener, closer) ==
    CloseAt(t, SkipWhite(t, i) + 1, 1, opener, closer) + 1

\* the element command lit at position i has a required bracket group
\* that is unterminated at the end of the input
UnterminatedAt(t, i, lit) ==
    /\ LitAt(t, i, lit)
    /\ LET a == i + Len(lit) IN
       \/ OpenEnded(t, a, "[", "]")
       \/ /\ SkipWhite(t, a) < Len(t) /\ t[SkipWhite(t, a) + 1] = "["
          /\ LET b == PastGroup(t, a, "[", "]") IN
             \/ OpenEnded(t, b, "{", "}")
             \/ /\ SkipWhite(t, b) < Len(t) /\ t[SkipWhite(t, b) + 1] = "{"
                /\ OpenEnded(t, PastGroup(t, b, "{", "}"), "{", "}")

LitOf(kind) ==
    CASE kind = "keyproject" -> KeyprojectLit
      [] kind = "deliverable" -> DeliverableLit
      [] kind = "keytask" -> KeytaskLit
      [] kind = "prereq" -> PrereqLit

\* the unterminated \keytask[x]{bad{ followed by the valid
\* \keytask[x]{c}{n}, under an open deliverable
BadThenValid == FragKP \o FragDV \o FragBad \o FragKT

\* the scan has gone past an unterminated command literal
PassedUnterminated ==
    /\ di >= 1
    /\ \E i \in 0..(Len(text) - 1) :
        /\ i < loc
        /\ \E kind \in {"keyproject", "deliverable", "keytask"} :
               UnterminatedAt(text, i, LitOf(kind))

\* the text holds no quote character (a quoted string inside a group hides
\* the delimiters it contains from the group)
QuoteFree(t) == \A i \in 1..Len(t) : t[i] \notin Quotes

C10_Idempotent ==
    /\ (di = 2 /\ pc = "scan" /\ dispatched = <<>>) => projects = <<>>
    /\ (Len(results) = 2 /\ docs[1] = docs[2]) => results[2] = results[1]

C10_Witness ==
    /\ Len(results) = 2
    /\ docs[1] = docs[2]
    /\ Len(results[2]) = 2
    /\ results[2][1].deliverables # <<>>

(***************************************************************************)
(* C11: a token that is no reference type is passed over together with    *)
(* its group.                                                              *)
(***************************************************************************)
\* the content list of \prereq{\deliverableref{A} \fooref{X}
\* \deliverableref{B}}
FooContent == PrereqPattern(FragPrFoo, 0).val

DeliverableA == DeliverablePrefix \o <<"A">>
DeliverableB == DeliverablePrefix \o <<"B">>

\* r is prefix + an element of the group that directly follows a
\* \deliverableref or \keyprojectref token of content
FromKnownToken(content, r) ==
    \E i \in 1..(Len(content) - 1) :
        /\ content[i].isStr
        /\ RefToken(content[i]) \in {DeliverablerefLit, KeyprojectrefLit}
        /\ \E q \in 1..Len(Iterate(content[i + 1])) :
              /\ Iterate(content[i + 1])[q].isStr
              /\ r = (IF RefToken(content[i]) = DeliverablerefLit
                      THEN DeliverablePrefix ELSE KeyprojectPrefix)
                     \o Iterate(content[i + 1])[q].s

\* C11: a prereq command never adds a PrereqRef for a token that is
\* neither \deliverableref nor \keyprojectref or for that token's group:
\* every PrereqRef it adds comes from the group of a known token; and
\* \prereq{\deliverableref{A} \fooref{X} \deliverableref{B}} under an open
\* deliverable completes without error and adds exactly deliverable:A,
\* deliverable:B, in that order.
C11_UnknownTokenSkipped ==
    \A k \in 1..Len(dispatched) :
        Kind(k) = "prereq" =>
            /\ \A a \in 1..Len(dispatched[k].added) :
                  FromKnownToken(dispatched[k].content, dispatched[k].added[a])
            /\ (dispatched[k].content = FooContent /\ DeliverableOpenAt(k)) =>
                  /\ dispatched[k].exc = "none"
                  /\ dispatched[k].added = <<DeliverableA, DeliverableB>>

\* the \fooref command was handled under an open deliverable and the
\* parse went on to return
C11_Witness ==
    /\ pc = "idle"
    /\ Len(results) = 1
    /\ \E k \in 1..Len(dispatched) :
          /\ Kind(k) = "prereq"
          /\ dispatched[k].content = FooContent
          /\ DeliverableOpenAt(k)
          /\ dispatched[k].added = <<DeliverableA, DeliverableB>>

(***************************************************************************)
(* C12: a document with an orphan command in a batch.                      *)
(***************************************************************************)
\* seq without its k-th element
Without(seq, k) == SubSeq(seq, 1, k - 1) \o SubSeq(seq, k + 1, Len(seq))

\* what generate_confluence_table prints for the batch without document k
TableWithout(k) ==
    <<HeaderLine>>
    \o TableRows(GroupName(Without(names, k)[Len(names) - 1]),
                 Concat(Without(results, k)))
    \o <<TrailerLine>>

\* C12 as stated: when a document of a batch had a command with no open
\* project or deliverable, the batch does not stop with an error and what
\* is delivered for the other documents is what is delivered for the batch
\* without that document.
C12_BatchIsolation ==
    /\ (pc = "raised" /\ Len(docs) >= 2) => orphaned = {}
    /\ (pc = "done" /\ Len(docs) >= 2) =>
          \A k \in orphaned : printed = TableWithout(k)

(***************************************************************************)
(* C17: the code of a row.                                                 *)
(***************************************************************************)
\* the rows claimed for one document: its own group, its projects numbered
\* on from offset, the number of projects of the documents before it
ClaimedRows(group, ps, offset) ==
    Concat([p \in 1..Len(ps) |->
        Concat([d \in 1..Len(ps[p].deliverables) |->
            [t \in 1..Len(ps[p].deliverables[d].keytasks) |->
                RowLine(<<TaskCode(group, offset + p, d, t),
                          ps[p].deliverables[d].keytasks[t].date,
                          ps[p].deliverables[d].keytasks[t].name,
                          <<" ">>, <<" ">>, StatusCell>>)]])])

\* C17 as stated: the table has exactly one row per key task, in document
\* order, and the code of a row is the upper-cased name of the document the
\* task was parsed from followed by the 1-indexed positions of its project,
\* its deliverable and the task.
C17_DerivedNumbering ==
    pc = "done" =>
        printed = <<HeaderLine>>
                  \o Concat([k \in 1..Len(docs) |->
                        ClaimedRows(GroupName(names[k]), results[k],
                                    Len(Concat(SubSeq(results, 1, k - 1))))])
                  \o <<TrailerLine>>

(***************************************************************************)
(* C13: the hierarchy only grows during a scan.                            *)
(***************************************************************************)
\* a is a prefix of b
PrefixOf(a, b) == Len(a) <= Len(b) /\ SubSeq(b, 1, Len(a)) = a

\* every project and deliverable of ps is in qs at the same place with the
\* same code, date and name, and each of its sequences is a prefix of the
\* same sequence in qs
Grown(ps, qs) ==
    /\ Len(ps) <= Len(qs)
    /\ \A p \in 1..Len(ps) :
          /\ ps[p].code = qs[p].code
          /\ ps[p].date = qs[p].date
          /\ ps[p].name = qs[p].name
          /\ Len(ps[p].deliverables) <= Len(qs[p].deliverables)
          /\ \A d \in 1..Len(ps[p].deliverables) :
                /\ ps[p].deliverables[d].code = qs[p].deliverables[d].code
                /\ ps[p].deliverables[d].date = qs[p].deliverables[d].date
                /\ ps[p].deliverables[d].name = qs[p].deliverables[d].name
                /\ PrefixOf(ps[p].deliverables[d].keytasks,
                            qs[p].deliverables[d].keytasks)
                /\ PrefixOf(ps[p].deliverables[d].prereqs,
                            qs[p].deliverables[d].prereqs)

\* C13: across every step of the scan of one document the code, date and
\* name of every existing project, deliverable and key task are unchanged
\* and the sequences of projects, deliverables, key tasks and prereqs
\* before the step are prefixes of the same sequences after it.
C13_AppendOnly == [][pc = "scan" => Grown(projects, projects')]_vars

\* a second project was opened after the first had a deliverable with
\* prerequisites
C13_Witness ==
    /\ pc = "scan"
    /\ Len(projects) = 2
    /\ Len(projects[1].deliverables) = 1
    /\ projects[1].deliverables[1].prereqs # <<>>
    /\ dispatched[Len(dispatched)].kind = "keyproject"

(***************************************************************************)
(* C16: what a prereq command changes.                                     *)
(***************************************************************************)
\* the step runs the parse action of a prereq command to its end
PrereqHandled ==
    /\ pc = "scan"
    /\ Len(dispatched') = Len(dispatched) + 1
    /\ dispatched'[Len(dispatched')].kind = "prereq"
    /\ dispatched'[Len(dispatched')].exc = "none"

\* qs is ps but for the prereqs of the last deliverable of the last project
OnlyLastPrereqs(ps, qs) ==
    \/ qs = ps
    \/ /\ ps # <<>>
       /\ ps[Len(ps)].deliverables # <<>>
       /\ \E r \in {qs[Len(ps)].deliverables[
                        Len(ps[Len(ps)].deliverables)].prereqs} :
             qs = [ps EXCEPT ![Len(ps)].deliverables[
                        Len(ps[Len(ps)].deliverables)].prereqs = r]

\* C16: a prereq command that is resolved changes nothing but the prereqs
\* of the last deliverable of the last project - the prereqs of every
\* other deliverable, all key tasks and the sequences of projects and
\* deliverables stay as they were - and a deliverable created by a later
\* command starts with empty prereqs.
C16_PrereqScope ==
    [][/\ PrereqHandled => OnlyLastPrereqs(projects, projects')
       /\ DeliverableHandled =>
             projects'[Len(projects')].deliverables[
                 Len(projects'[Len(projects')].deliverables)].prereqs = <<>>
      ]_vars

\* a prereq command was resolved for the second deliverable of a project:
\* the first deliverable has no prerequisites, the second has
C16_Witness ==
    /\ Len(projects) = 1
    /\ Len(projects[1].deliverables) = 2
    /\ projects[1].deliverables[1].prereqs = <<>>
    /\ projects[1].deliverables[2].prereqs # <<>>
    /\ dispatched[Len(dispatched)].kind = "prereq"
    /\ dispatched[Len(dispatched)].exc = "none"

(***************************************************************************)
(* C14: where a bracket group ends.                                        *)
(***************************************************************************)
\* the group by delimiter counting: it opens at (whitespace skipped)
\* position i and ends with the closer that brings the count of its own
\* kind of delimiter back to 0
CountedGroup(t, i, opener, closer) ==
    LET j == SkipWhite(t, i) IN
    IF j < Len(t) /\ t[j + 1] = opener
                  /\ CloseAt(t, j + 1, 1, opener, closer) # -1
    THEN [ok |-> TRUE, loc |-> CloseAt(t, j + 1, 1, opener, closer) + 1]
    ELSE [ok |-> FALSE, loc |-> i]

\* the command of the given kind at position i with its groups counted
CountedCommand(t, i, kind) ==
    IF ~LitAt(t, i, LitOf(kind)) THEN [ok |-> FALSE, loc |-> i]
    ELSE IF kind = "prereq"
    THEN CountedGroup(t, i + Len(PrereqLit), "{", "}")
    ELSE LET a == CountedGroup(t, i + Len(LitOf(kind)), "[", "]") IN
         IF ~a.ok THEN a
         ELSE LET b == CountedGroup(t, a.loc, "{", "}") IN
              IF ~b.ok THEN b ELSE CountedGroup(t, b.loc, "{", "}")

\* the command of the given kind at position i as the patterns match it
MatchedCommand(t, i, kind) ==
    IF kind = "prereq" THEN PrereqPattern(t, i)
    ELSE ElementPattern(t, i, LitOf(kind))

Kinds == {"keyproject", "deliverable", "keytask", "prereq"}

\* C14 as stated: at every position the scan tries, a command matches
\* exactly when each of its groups has, by counting the delimiters of its
\* own kind, a closer that brings the count back to 0 before the end of
\* the input, whatever characters lie between, and the match ends just
\* past that closer of its last group.
C14_BracketMatching ==
    pc = "scan" =>
        \A kind \in Kinds :
            /\ MatchedCommand(text, preloc, kind).ok
                   = CountedCommand(text, preloc, kind).ok
            /\ MatchedCommand(text, preloc, kind).ok =>
                   MatchedCommand(text, preloc, kind).loc
                       = CountedCommand(text, preloc, kind).loc

(***************************************************************************)
(* C15: the spans of the dispatched commands.                              *)
(***************************************************************************)
\* the position just past the groups of dispatched command k
SpanEnd(k) == MatchedCommand(text, dispatched[k].at, Kind(k)).loc

\* C15 as stated: the commands that are dispatched do not overlap - each
\* starts at or after the end of the groups of every command dispatched
\* before it - so a command literal inside a bracket group of a dispatched
\* command is not dispatched itself.
C15_ScanAdvance ==
    \A k \in 1..Len(dispatched) :
        \A j \in 1..(k - 1) : SpanEnd(j) <= dispatched[k].at

(***************************************************************************)
(* C18: the scan ends.                                                     *)
(***************************************************************************)
\* C18: the scan of every text reaches its end (the tree is returned) or
\* stops with an error; every step of the scan moves the position
\* forward; and in every content list a prereq command is run with, every
\* iteration of the loop moves the index forward.
C18_Termination ==
    /\ <>(Len(results) = 1 \/ pc = "raised")
    /\ [][(pc = "scan" /\ pc' # "idle") => loc' > loc]_vars
    /\ [](\A k \in 1..Len(dispatched) :
            Kind(k) = "prereq" =>
                \A i \in 0..(Len(dispatched[k].content) - 1) :
                    NextIndex(dispatched[k].content, i) > i)

\* the scan came to its end after a prereq command whose list holds only
\* an unknown token and its group was run under an open deliverable
C18_Witness ==
    /\ Len(results) = 1
    /\ \E k \in 1..Len(dispatched) :
          /\ Kind(k) = "prereq"
          /\ dispatched[k].content = PrereqPattern(FragPrOnlyFoo, 0).val
          /\ DeliverableOpenAt(k)
          /\ dispatched[k].exc = "none"
          /\ dispatched[k].added = <<>>

====
